---------------------------- MODULE Spec2Model ----------------------------
(***************************************************************************)
(* A model of the twitter154 RapidAPI client (package twitter).            *)
(*                                                                         *)
(* Two generations of the client live in the repository:                   *)
(*   - the generic engine (getResult / getResultPaginated, parameter       *)
(*     values percent-encoded), and                                        *)
(*   - src/twitter154/api.go, whose endpoints carry their own loops.       *)
(*                                                                         *)
(* Spec     one client, a sequence of calls, each call running through     *)
(*          get -> do -> limiter admission -> transport -> decode.         *)
(* SpecNew  the constructor New applied to a list of options.              *)
(* SpecUrl  the URL builders, on strings modelled as character sequences.  *)
(*                                                                         *)
(* Modelling decisions.                                                    *)
(*   - An item of a page (a Tweet, a User) is an atomic value: every JSON  *)
(*     element of an item list states the whole item.                      *)
(*   - A Go error is its chain of wrapping messages, outermost first, plus *)
(*     the status code it carries (0 when it carries none).                *)
(*   - In Spec the URL of a request is kept unrendered, as the (host,      *)
(*     path, params) triple handed to buildUrlWithParameters; rendering is *)
(*     the subject of SpecUrl.                                             *)
(*   - A call runs atomically between its two blocking points, the         *)
(*     limiter's Take and the transport's Do.                              *)
(***************************************************************************)
EXTENDS Integers, Sequences, FiniteSets, TLC

VARIABLES
    \* ---- Spec: the client and the call in progress
    client,       \* the Client value the calls run on (c)
    admissions,   \* how many times the limiter's Take has returned
    dispatches,   \* how many requests httpClient.Do has been handed
    doCalls,      \* how many times Client.do has been entered
    pc,           \* where the caller is: idle, take, send, wait, done
    call,         \* the function the caller is in
    pos,          \* getResultPaginated: "first" (line 169) or "loop" (line 185)
    path,         \* getResultPaginated's local path
    params,       \* getResultPaginated's local params
    req,          \* the *http.Request do is working on
    r,            \* getResultPaginated's local r (the decoded page)
    results,      \* getResultPaginated's local results (the accumulator)
    ret,          \* what the call returned: [results, err]
    args,         \* the arguments the call was made with: [path, params]
    doRet,        \* what the last do of this call returned: [data, err]
    fetches,      \* this call's c.get invocations, in order: [path, params]
    sent,         \* this call's requests handed to the transport, in order
    answers,      \* this call's transport outcomes, in order
    pages,        \* this call's decoded pages (r after each decode), in order
    \* ---- SpecNew
    newIn,        \* New's arguments
    newOut,       \* New's results
    \* ---- SpecUrl
    urlIn,        \* the builders' arguments
    urlOut,       \* the builders' results
    \* ---- SpecConc
    callers       \* the locals of each concurrent call, by caller

engineVars == <<client, admissions, dispatches, doCalls, pc, call, pos, path,
                params, req, r, results, ret, args, doRet, fetches, sent, answers,
                pages>>
newVars == <<newIn, newOut>>
urlVars == <<urlIn, urlOut>>
concVars == <<callers>>
vars == <<engineVars, newVars, urlVars, concVars>>

-----------------------------------------------------------------------------
(* Bounds *)

\* Requests one client may have admitted over its lifetime.
MaxRequests == 3
\* Options handed to one New.
MaxOpts == 3
\* Segments of a path and parameters of a list handed to the URL builders.
MaxPathLen == 2
MaxParams == 2

-----------------------------------------------------------------------------
(* Errors *)

Nil == [chain |-> <<>>, code |-> 0]

\* errors.New(msg)
NewError(msg) == [chain |-> <<msg>>, code |-> 0]

\* fmt.Errorf("<msg>: %w", err)
Wrap(msg, err) == [err EXCEPT !.chain = <<msg>> \o @]

ErrNotImplemented == NewError("not implemented")

-----------------------------------------------------------------------------
(* Options and New *)

NilPtr == "nil"

DefaultHost == "twitter154.p.rapidapi.com"
Unlimited == "ratelimit.NewUnlimited()"
DefaultClient == "http.DefaultClient"

\* Hosts WithHost is tried on.  http.NewRequest parses "https://<host>": it
\* rejects a host with a space or a control character and accepts the rest,
\* the empty host included (url.Parse("https://") succeeds).
Hosts == {"", "example.com", "other.example.com", "exa mple.com"}
InvalidHosts == {"exa mple.com"}
Limiters == {"rl1", "rl2"}
HttpClients == {"hc1"}

\* &options{}
ZeroOptions == [isNil |-> FALSE, host |-> "", rateLimit |-> NilPtr, httpClient |-> NilPtr]
\* the options pointer of the zero Client
NilOptions == [isNil |-> TRUE, host |-> "", rateLimit |-> NilPtr, httpClient |-> NilPtr]
\* the zero Client (New's named result c before it is assigned)
ZeroClient == [apiKey |-> "", options |-> NilOptions]

Options ==
    [kind : {"WithHost"}, arg : Hosts]
    \cup [kind : {"WithRateLimit"}, arg : Limiters]
    \cup [kind : {"WithHttpClient"}, arg : HttpClients]

\* http.NewRequest("GET", "https://" + host, nil) as WithHost uses it
hostRequestErr(host) ==
    IF host \in InvalidHosts THEN NewError("parse") ELSE Nil

WithHost(host, o) ==
    LET err == hostRequestErr(host) IN
    IF err # Nil
    THEN [o |-> o, err |-> Wrap("invalid host", err)]
    ELSE [o |-> [o EXCEPT !.host = host], err |-> Nil]

WithRateLimit(rl, o) == [o |-> [o EXCEPT !.rateLimit = rl], err |-> Nil]

WithHttpClient(hc, o) == [o |-> [o EXCEPT !.httpClient = hc], err |-> Nil]

\* opt(o)
applyOption(opt, o) ==
    CASE opt.kind = "WithHost" -> WithHost(opt.arg, o)
      [] opt.kind = "WithRateLimit" -> WithRateLimit(opt.arg, o)
      [] opt.kind = "WithHttpClient" -> WithHttpClient(opt.arg, o)

\* the defaults New fills in after the options (lines 72-83)
applyDefaults(o) ==
    [o EXCEPT
        !.host = IF @ = "" THEN DefaultHost ELSE @,
        !.rateLimit = IF @ = NilPtr THEN Unlimited ELSE @,
        !.httpClient = IF @ = NilPtr THEN DefaultClient ELSE @]

\* Mutant of newFailure: the options applied so far come back in the Client.
newFailureKeepsOptions(apiKey, o, err) ==
    [c |-> [apiKey |-> apiKey, options |-> o], err |-> Wrap("bad option", err)]

\* line 68: what New returns when an option fails
newFailure(apiKey, o, err) == [c |-> ZeroClient, err |-> Wrap("bad option", err)]

\* New's loop over opts from index i on, o being the options so far.  ran is
\* the number of options invoked, o the options struct as New left it.
RECURSIVE newFrom(_, _, _, _)
newFrom(apiKey, opts, i, o) ==
    IF i > Len(opts)
    THEN [c |-> [apiKey |-> apiKey, options |-> applyDefaults(o)],
          err |-> Nil, ran |-> Len(opts), o |-> applyDefaults(o)]
    ELSE LET res == applyOption(opts[i], o) IN
         IF res.err # Nil
         THEN [c |-> newFailure(apiKey, res.o, res.err).c,
               err |-> newFailure(apiKey, res.o, res.err).err,
               ran |-> i, o |-> res.o]
         ELSE newFrom(apiKey, opts, i + 1, res.o)

New(apiKey, opts) == newFrom(apiKey, opts, 1, ZeroOptions)

-----------------------------------------------------------------------------
(* The transport and its answers *)

\* Item lists a response body may carry (in the remote's order).
ItemLists == {<<>>, <<"a", "b">>, <<"c">>}
\* Continuation tokens a response body may carry.
Tokens == {"", "t1", "t2"}

\* A response body.  valid: it is JSON of the expected shape.  hasResults /
\* hasToken: the object holds the item field / the "continuation_token" field
\* (a JSON null or [] item field is hasResults with no items).
MalformedBody ==
    [valid |-> FALSE, hasResults |-> FALSE, results |-> <<>>,
     hasToken |-> FALSE, token |-> ""]
JsonBodies ==
    { [valid |-> TRUE, hasResults |-> hr, results |-> IF hr THEN l ELSE <<>>,
       hasToken |-> ht, token |-> IF ht THEN t ELSE ""] :
         hr \in BOOLEAN, l \in ItemLists, ht \in BOOLEAN, t \in Tokens }
Bodies == JsonBodies \cup {MalformedBody}

\* Bodies sent along with the statuses other than 200.
SampleBodies ==
    { b \in JsonBodies : /\ b.hasResults /\ b.hasToken /\ b.token = "t1"
                         /\ b.results \in {<<>>, <<"c">>} }

Statuses == {199, 200, 299, 300, 404, 500}

\* What httpClient.Do may come back with: an error, or a response with a
\* status and a body whose read succeeds or fails.
TransportError == [kind |-> "error", status |-> 0, body |-> MalformedBody, readOk |-> FALSE]
Answers ==
    {TransportError}
    \cup [kind : {"response"}, status : Statuses, body : SampleBodies, readOk : {TRUE}]
    \cup [kind : {"response"}, status : {200}, body : Bodies, readOk : {TRUE}]
    \cup [kind : {"response"}, status : {200}, body : SampleBodies, readOk : {FALSE}]

\* []byte results of do: nil, or the bytes of a body
NilData == [isNil |-> TRUE, body |-> MalformedBody]
Data(b) == [isNil |-> FALSE, body |-> b]

-----------------------------------------------------------------------------
(* Client.do, Client.get *)

\* Mutant of Take: do goes on without asking the limiter.
TakeSkipped(n) == n

\* (*c.options.rateLimit).Take(): the limiter's admission count after it
Take(n) == n + 1

\* httpClient.Do(req): the transport's dispatch count after it
Do(n) == n + 1

\* Mutant of addHeaders: only the key header is added.
addHeadersKeyOnly(c, rq) ==
    [rq EXCEPT !.header = @ \o << [name |-> "X-RapidAPI-Key", value |-> c.apiKey] >>]

\* req.Header.Add twice (lines 113-114)
addHeaders(c, rq) ==
    [rq EXCEPT !.header = @ \o << [name |-> "X-RapidAPI-Key", value |-> c.apiKey],
                                  [name |-> "X-RapidAPI-Host", value |-> c.options.host] >>]

\* Mutant of statusOk: the upper end of the range is off by one.
statusOkThrough300(code) == ~(code < 200 \/ code > 300)

\* line 122, negated: the status passes
statusOk(code) == ~(code < 200 \/ code >= 300)

\* do from the transport's answer on (lines 118-131)
doResult(resp) ==
    IF resp.kind = "error"
    THEN [data |-> NilData, err |-> Wrap("send request", NewError("transport"))]
    ELSE IF ~statusOk(resp.status)
    THEN [data |-> NilData, err |-> [chain |-> <<"status code">>, code |-> resp.status]]
    ELSE IF ~resp.readOk
    THEN [data |-> NilData, err |-> Wrap("read response body", NewError("read"))]
    ELSE [data |-> Data(resp.body), err |-> Nil]

\* Path segments http.NewRequest cannot parse (a control character).
InvalidSegments == {"a\tb"}

\* c.buildUrlWithParameters(path, params), unrendered
requestUrl(c, p, ps) == [host |-> c.options.host, path |-> p, params |-> ps]

\* http.NewRequest("GET", url, nil): the request, or the parse error
NewRequest(url) ==
    IF \E i \in 1..Len(url.path) : url.path[i] \in InvalidSegments
    THEN [ok |-> FALSE, err |-> NewError("parse"),
          req |-> [method |-> "GET", url |-> url, header |-> <<>>]]
    ELSE [ok |-> TRUE, err |-> Nil,
          req |-> [method |-> "GET", url |-> url, header |-> <<>>]]

\* get up to its call of do (lines 135-139)
get(c, p, ps) ==
    LET nr == NewRequest(requestUrl(c, p, ps)) IN
    IF ~nr.ok
    THEN [ok |-> FALSE, err |-> Wrap("create request", nr.err), req |-> nr.req]
    ELSE [ok |-> TRUE, err |-> Nil, req |-> nr.req]

-----------------------------------------------------------------------------
(* getResultPaginated *)

\* var r R
ZeroPage == [Results |-> <<>>, ContinuationToken |-> ""]

\* json.Unmarshal(data, &r): a field the object does not hold leaves the
\* field of r as it was
Unmarshal(data, page) ==
    IF ~data.body.valid
    THEN [r |-> page, err |-> NewError("json")]
    ELSE [r |-> [Results |-> IF data.body.hasResults
                             THEN data.body.results ELSE page.Results,
                 ContinuationToken |-> IF data.body.hasToken
                                       THEN data.body.token
                                       ELSE page.ContinuationToken],
          err |-> Nil]

\* line 180
contPath(p) == Append(p, "continuation")

\* line 181
contParams(ps, token) == Append(ps, [key |-> "continuation_token", value |-> token])

\* Mutant of setToken: the token of the first page is sent with every request.
setTokenStale(ps, token) == ps

\* line 195
setToken(ps, token) == [ps EXCEPT ![Len(ps)].value = token]

\* Mutant of loopCond: the loop runs while the page carries a token.
loopCondOnToken(page) == page.ContinuationToken # ""

\* Mutant of loopCond: the loop does not look at the page.
loopCondAlways(page) == TRUE

\* line 183
loopCond(page) == Len(page.Results) # 0

\* Mutant of appendResults: the page replaces the accumulator.
appendResultsOverwrite(acc, page) == page.Results

\* line 184
appendResults(acc, page) == acc \o page.Results

\* Mutant of failWith: the items accumulated so far come back with the error.
failWithPartial(acc, msg, err) == [results |-> acc, err |-> Wrap(msg, err)]

\* lines 171, 177, 187, 192: what a failing step returns
failWith(acc, msg, err) == [results |-> <<>>, err |-> Wrap(msg, err)]

\* line 198
succeedWith(acc) == [results |-> acc, err |-> Nil]

NoRet == [results |-> <<>>, err |-> Nil]

\* getResultPaginated from the return of a c.get (line 169 when at = "first",
\* line 185 when at = "loop") up to its return or its next c.get.
afterGet(at, p, ps, page, acc, g) ==
    IF g.err # Nil
    THEN [done |-> TRUE, decoded |-> FALSE, ret |-> failWith(acc, "get", g.err),
          path |-> p, params |-> ps, r |-> page, results |-> acc]
    ELSE
    LET u == Unmarshal(g.data, page) IN
    IF u.err # Nil
    THEN [done |-> TRUE, decoded |-> FALSE,
          ret |-> failWith(acc, "unmarshal response", u.err),
          path |-> p, params |-> ps, r |-> u.r, results |-> acc]
    ELSE
    LET p2 == IF at = "first" THEN contPath(p) ELSE p
        ps2 == IF at = "first"
               THEN contParams(ps, u.r.ContinuationToken)
               ELSE setToken(ps, u.r.ContinuationToken)
    IN  IF loopCond(u.r)
        THEN [done |-> FALSE, decoded |-> TRUE, ret |-> NoRet,
              path |-> p2, params |-> ps2, r |-> u.r,
              results |-> appendResults(acc, u.r)]
        ELSE [done |-> TRUE, decoded |-> TRUE, ret |-> succeedWith(acc),
              path |-> p2, params |-> ps2, r |-> u.r, results |-> acc]

-----------------------------------------------------------------------------
(* getResult *)

\* Mutant of afterGetResult: a failing step returns the zero value without
\* the error.
afterGetResultSwallowing(g) ==
    IF g.err # Nil
    THEN [decoded |-> FALSE, ret |-> NoRet, r |-> ZeroPage]
    ELSE
    LET u == Unmarshal(g.data, ZeroPage) IN
    IF u.err # Nil
    THEN [decoded |-> FALSE, ret |-> NoRet, r |-> u.r]
    ELSE [decoded |-> TRUE, ret |-> [results |-> u.r.Results, err |-> Nil], r |-> u.r]

\* getResult from the return of its c.get (line 149) up to its return; R is
\* the page struct and Result() its item field.
afterGetResult(g) ==
    IF g.err # Nil
    THEN [decoded |-> FALSE, ret |-> failWith(<<>>, "get", g.err), r |-> ZeroPage]
    ELSE
    LET u == Unmarshal(g.data, ZeroPage) IN
    IF u.err # Nil
    THEN [decoded |-> FALSE, ret |-> failWith(<<>>, "unmarshal response", u.err),
          r |-> u.r]
    ELSE [decoded |-> TRUE, ret |-> [results |-> u.r.Results, err |-> Nil], r |-> u.r]

-----------------------------------------------------------------------------
(* Spec: a client and its calls *)

\* Option lists the client of Spec is built from.
ClientOptLists == { <<>>, << [kind |-> "WithHost", arg |-> "example.com"] >> }

\* Arguments the engine is called with.
CallArgs ==
    { [path |-> <<"tweet", "replies">>,
       params |-> << [key |-> "tweet_id", value |-> "42"] >>],
      [path |-> <<"user", "tweets">>,
       params |-> << [key |-> "user_id", value |-> "7"],
                     [key |-> "limit", value |-> "100"] >>],
      [path |-> <<"a\tb">>,
       params |-> << [key |-> "tweet_id", value |-> "42"] >>] }

\* The endpoints that are not implemented.
Stubs == {"GetUserLikes", "GetUserMedia", "GetTweetUserRetweets", "Search",
          "GeoSearch", "Hashtag", "GetListDetails", "GetListTweets",
          "GetTrends", "GetLocations"}

NoArgs == [path |-> <<>>, params |-> <<>>]
NoDoRet == [data |-> NilData, err |-> Nil]
NoRequest == [method |-> "", url |-> [host |-> "", path |-> <<>>, params |-> <<>>],
              header |-> <<>>]

IdleNew == /\ newIn = [apiKey |-> "", opts |-> <<>>]
           /\ newOut = [called |-> FALSE, c |-> ZeroClient, err |-> Nil, ran |-> 0,
                        o |-> ZeroOptions]
IdleUrl == /\ urlIn = [c |-> ZeroClient, path |-> <<>>, params |-> <<>>]
           /\ urlOut = [built |-> "", url |-> <<>>]

\* The goroutines that call the client at the same time.
Callers == {"c1", "c2"}

\* The locals of a caller that has not called yet.
IdleCaller ==
    [pc |-> "idle", pos |-> "first", path |-> <<>>, params |-> <<>>,
     req |-> NoRequest, r |-> ZeroPage, results |-> <<>>, ret |-> NoRet,
     args |-> NoArgs, fetches |-> <<>>, sent |-> <<>>, answers |-> <<>>,
     pages |-> <<>>]

CallLocalsInit ==
    /\ callers = [k \in Callers |-> IdleCaller]
    /\ pos = "first"
    /\ path = <<>>
    /\ params = <<>>
    /\ req = NoRequest
    /\ r = ZeroPage
    /\ results = <<>>
    /\ ret = NoRet
    /\ args = NoArgs
    /\ doRet = NoDoRet
    /\ fetches = <<>>
    /\ sent = <<>>
    /\ answers = <<>>
    /\ pages = <<>>

Init ==
    /\ client \in { New("key", o).c : o \in ClientOptLists }
    /\ admissions = 0
    /\ dispatches = 0
    /\ doCalls = 0
    /\ pc = "idle"
    /\ call = ""
    /\ CallLocalsInit
    /\ IdleNew
    /\ IdleUrl

\* The caller invokes c.get(p, ps) and, unless the request cannot be built,
\* enters do and blocks in Take; acc is the caller's accumulator.
IssueGet(p, ps, acc) ==
    LET g == get(client, p, ps) IN
    /\ fetches' = Append(fetches, [path |-> p, params |-> ps])
    /\ IF g.ok
       THEN /\ req' = addHeaders(client, g.req)
            /\ doCalls' = doCalls + 1
            /\ pc' = "take"
            /\ ret' = NoRet
       ELSE /\ req' = req
            /\ doCalls' = doCalls
            /\ pc' = "done"
            /\ ret' = failWith(acc, "get", g.err)

\* getResultPaginated(c, p, ps) is called (line 168) and runs to its first
\* blocking point.
CallPaginated(p, ps) ==
    /\ pc = "idle"
    /\ call' = "getResultPaginated"
    /\ pos' = "first"
    /\ args' = [path |-> p, params |-> ps]
    /\ path' = p
    /\ params' = ps
    /\ IssueGet(p, ps, <<>>)
    /\ UNCHANGED <<client, admissions, dispatches, r, results, doRet, sent, answers,
                   pages>>
    /\ UNCHANGED <<newVars, urlVars, concVars>>

\* Mutant of CallStub: the endpoint sends a request like an implemented one.
CallStubFetching(name) ==
    /\ pc = "idle"
    /\ call' = name
    /\ pos' = "first"
    /\ args' = [path |-> <<"user", "likes">>, params |-> <<>>]
    /\ path' = <<"user", "likes">>
    /\ params' = <<>>
    /\ IssueGet(<<"user", "likes">>, <<>>, <<>>)
    /\ UNCHANGED <<client, admissions, dispatches, r, results, doRet, sent, answers,
                   pages>>
    /\ UNCHANGED <<newVars, urlVars, concVars>>

\* A not-implemented endpoint is called and returns (e.g. lines 350-352).
CallStub(name) ==
    /\ pc = "idle"
    /\ call' = name
    /\ pc' = "done"
    /\ ret' = [results |-> <<>>, err |-> ErrNotImplemented]
    /\ UNCHANGED <<client, admissions, dispatches, doCalls, pos, path, params, req,
                   r, results, args, doRet, fetches, sent, answers, pages>>
    /\ UNCHANGED <<newVars, urlVars, concVars>>

\* The limiter admits the caller blocked in do (line 116).
Admit ==
    /\ pc = "take"
    /\ admissions < MaxRequests
    /\ admissions' = Take(admissions)
    /\ pc' = "send"
    /\ UNCHANGED <<client, dispatches, doCalls, call, pos, path, params, req, r,
                   results, ret, args, doRet, fetches, sent, answers, pages>>
    /\ UNCHANGED <<newVars, urlVars, concVars>>

\* Mutant of Send: do puts the default host back into the client's options.
SendResettingHost ==
    /\ pc = "send"
    /\ dispatches' = Do(dispatches)
    /\ sent' = Append(sent, req)
    /\ pc' = "wait"
    /\ client' = [client EXCEPT !.options.host = DefaultHost]
    /\ UNCHANGED <<admissions, doCalls, call, pos, path, params, req, r,
                   results, ret, args, doRet, fetches, answers, pages>>
    /\ UNCHANGED <<newVars, urlVars, concVars>>

\* do hands the request to the transport (line 117).
Send ==
    /\ pc = "send"
    /\ dispatches' = Do(dispatches)
    /\ sent' = Append(sent, req)
    /\ pc' = "wait"
    /\ UNCHANGED <<client, admissions, doCalls, call, pos, path, params, req, r,
                   results, ret, args, doRet, fetches, answers, pages>>
    /\ UNCHANGED <<newVars, urlVars, concVars>>

\* The transport comes back with resp; do, get and getResultPaginated run on
\* to the return or to the next blocking Take.
Respond(resp) ==
    /\ pc = "wait"
    /\ call = "getResultPaginated"
    /\ answers' = Append(answers, resp)
    /\ doRet' = doResult(resp)
    /\ LET s == afterGet(pos, path, params, r, results, doResult(resp)) IN
       /\ path' = s.path
       /\ params' = s.params
       /\ r' = s.r
       /\ results' = s.results
       /\ pages' = IF s.decoded THEN Append(pages, s.r) ELSE pages
       /\ pos' = "loop"
       /\ IF s.done
          THEN /\ ret' = s.ret
               /\ pc' = "done"
               /\ UNCHANGED <<req, doCalls, fetches>>
          ELSE IssueGet(s.path, s.params, s.results)
    /\ UNCHANGED <<client, admissions, dispatches, call, args, sent>>
    /\ UNCHANGED <<newVars, urlVars, concVars>>

\* getResult(c, p, ps) is called (line 148) and runs to its blocking point.
CallResult(p, ps) ==
    /\ pc = "idle"
    /\ call' = "getResult"
    /\ pos' = "first"
    /\ args' = [path |-> p, params |-> ps]
    /\ path' = p
    /\ params' = ps
    /\ IssueGet(p, ps, <<>>)
    /\ UNCHANGED <<client, admissions, dispatches, r, results, doRet, sent, answers,
                   pages>>
    /\ UNCHANGED <<newVars, urlVars, concVars>>

\* The transport comes back with resp to getResult's request; do, get and
\* getResult run on to the return.
RespondResult(resp) ==
    /\ pc = "wait"
    /\ call = "getResult"
    /\ answers' = Append(answers, resp)
    /\ doRet' = doResult(resp)
    /\ LET s == afterGetResult(doResult(resp)) IN
       /\ r' = s.r
       /\ pages' = IF s.decoded THEN Append(pages, s.r) ELSE pages
       /\ ret' = s.ret
    /\ pc' = "done"
    /\ UNCHANGED <<client, admissions, dispatches, doCalls, call, pos, path, params,
                   req, results, args, fetches, sent>>
    /\ UNCHANGED <<newVars, urlVars, concVars>>

\* The caller takes the result; the client is ready for the next call.
Return ==
    /\ pc = "done"
    /\ pc' = "idle"
    /\ call' = ""
    /\ pos' = "first"
    /\ path' = <<>>
    /\ params' = <<>>
    /\ req' = NoRequest
    /\ r' = ZeroPage
    /\ results' = <<>>
    /\ ret' = NoRet
    /\ args' = NoArgs
    /\ doRet' = NoDoRet
    /\ fetches' = <<>>
    /\ sent' = <<>>
    /\ answers' = <<>>
    /\ pages' = <<>>
    /\ UNCHANGED <<client, admissions, dispatches, doCalls>>
    /\ UNCHANGED <<newVars, urlVars, concVars>>

Next ==
    \/ \E a \in CallArgs : CallPaginated(a.path, a.params)
    \/ \E name \in Stubs : CallStub(name)
    \/ Admit
    \/ Send
    \/ \E resp \in Answers : Respond(resp)
    \/ \E a \in CallArgs : CallResult(a.path, a.params)
    \/ \E resp \in Answers : RespondResult(resp)
    \/ Return

Spec == Init /\ [][Next]_vars

-----------------------------------------------------------------------------
(* Properties of getResultPaginated and do, under Spec *)

Paginating == call = "getResultPaginated"

\* The transport's answer is a response the caller can decode: a status in
\* 200..299, a body that reads and is JSON of the expected shape.
IsPage(a) ==
    /\ a.kind = "response"
    /\ a.status \in 200..299
    /\ a.readOk
    /\ a.body.valid

IsFailure(a) == ~IsPage(a)

\* The i-th request of the call never reached the transport (it could not
\* be built).
NotBuilt == pc = "done" /\ Len(fetches) > Len(sent)

\* C1: the loop stops at the first fetched page whose item list is empty,
\* whatever its token: no request follows such a page, and a request always
\* follows a page whose item list is not empty, whatever its token.
C1_StopsOnEmptyItemList ==
    Paginating =>
        \A i \in 1..Len(pages) :
            /\ pages[i].Results = <<>> =>
                   /\ i = Len(pages)
                   /\ Len(fetches) = i
                   /\ Len(sent) = i
                   /\ pc = "done"
            /\ pages[i].Results # <<>> =>
                   /\ Len(fetches) >= i + 1
                   /\ Len(sent) >= i + 1 \/ pc \in {"take", "send"}

C1_Witness ==
    /\ Paginating
    /\ pc = "done"
    /\ Len(pages) = 2
    /\ pages[1].Results # <<>> /\ pages[1].ContinuationToken = ""
    /\ pages[2].Results = <<>> /\ pages[2].ContinuationToken # ""
    /\ Len(sent) = 2

\* The item lists of the answers 1..n, concatenated in order.
RECURSIVE ConcatServed(_, _)
ConcatServed(as, n) ==
    IF n = 0 THEN <<>> ELSE ConcatServed(as, n - 1) \o as[n].body.results

\* The remote has answered with pages that state their item list, all but the
\* last one non-empty and the last one empty.
ServedWholeChain ==
    /\ Len(answers) >= 1
    /\ \A i \in 1..Len(answers) : IsPage(answers[i]) /\ answers[i].body.hasResults
    /\ \A i \in 1..(Len(answers) - 1) : answers[i].body.results # <<>>
    /\ answers[Len(answers)].body.results = <<>>

\* C2: against k non-empty pages followed by an empty one the call succeeds,
\* returns the pages' items concatenated in order, and makes k+1 round trips.
C2_ConcatenationAndRoundTrips ==
    (Paginating /\ ServedWholeChain) =>
        /\ pc = "done"
        /\ ret.err = Nil
        /\ ret.results = ConcatServed(answers, Len(answers) - 1)
        /\ Len(fetches) = Len(answers)
        /\ Len(sent) = Len(answers)

C2_Witness ==
    /\ Paginating
    /\ ServedWholeChain
    /\ Len(answers) = 3
    /\ answers[1].body.results = <<"a", "b">>
    /\ answers[2].body.results = <<"c">>
    /\ ret.results = <<"a", "b", "c">>
    /\ Len(sent) = 3

\* C3: a call never returns a partial list: a failed fetch at any page index
\* makes it return a failure and no items, and it returns a success only
\* after every page up to the empty one was fetched and decoded.
C3_NoPartialList ==
    (Paginating /\ pc = "done") =>
        /\ ((NotBuilt \/ \E i \in 1..Len(answers) : IsFailure(answers[i])) =>
               ret.err # Nil)
        /\ (ret.err # Nil => ret.results = <<>>)
        /\ (ret.err = Nil =>
               /\ ~NotBuilt
               /\ \A i \in 1..Len(answers) : IsPage(answers[i])
               /\ Len(pages) = Len(fetches)
               /\ Len(pages) >= 1
               /\ pages[Len(pages)].Results = <<>>)

C3_Witness ==
    /\ Paginating
    /\ pc = "done"
    /\ Len(pages) = 2
    /\ results = <<"a", "b", "c">>
    /\ IsFailure(answers[3])
    /\ ret.err # Nil
    /\ ret.results = <<>>

ContinuationOf(p) == p \o <<"continuation">>

\* C4: the first request goes to the base path with the caller's parameters
\* and no continuation_token; request i >= 2 goes to the base path plus one
\* "continuation" segment, with continuation_token = the token of page i-1.
C4_RequestChain ==
    Paginating =>
        /\ \A i \in 1..Len(fetches) :
              fetches[i] =
                  IF i = 1
                  THEN args
                  ELSE [path |-> ContinuationOf(args.path),
                        params |-> args.params \o
                            << [key |-> "continuation_token",
                                value |-> pages[i - 1].ContinuationToken] >>]
        /\ \A i \in 1..Len(sent) :
              /\ sent[i].url.path = fetches[i].path
              /\ sent[i].url.params = fetches[i].params
        /\ (/\ Len(fetches) >= 1
            /\ \A j \in 1..Len(args.params) : args.params[j].key # "continuation_token")
           => \A j \in 1..Len(fetches[1].params) :
                  fetches[1].params[j].key # "continuation_token"

C4_Witness ==
    /\ Paginating
    /\ Len(sent) = 3
    /\ pages[1].ContinuationToken = "t1"
    /\ pages[2].ContinuationToken = "t2"
    /\ sent[3].url.params[Len(sent[3].url.params)].value = "t2"

\* C5: every do is one admission followed by one dispatch, and a failed
\* request is not sent again: dispatches never exceed admissions.
C5_OneAdmissionOneDispatch ==
    /\ dispatches <= admissions
    /\ admissions <= doCalls
    /\ doCalls - admissions = (IF pc = "take" THEN 1 ELSE 0)
    /\ admissions - dispatches = (IF pc = "send" THEN 1 ELSE 0)
    /\ Len(sent) - Len(answers) = (IF pc = "wait" THEN 1 ELSE 0)
    /\ \A i \in 1..Len(answers) :
          (answers[i].kind = "error" \/ answers[i].status \notin 200..299
              \/ ~answers[i].readOk) => (Len(sent) = i /\ pc = "done")

C5_Witness ==
    /\ pc = "done"
    /\ Len(answers) = 2
    /\ answers[2].kind = "error"
    /\ dispatches = 3
    /\ admissions = 3

LastAnswer == answers[Len(answers)]

IsProtocolFailure(e) == e.chain = <<"status code">> /\ e.code # 0

\* C6: do returns the protocol failure, carrying the status, exactly when
\* the transport delivered a response whose status is outside 200..299, and
\* then returns no body.
C6_ProtocolFailureIffNon2xx ==
    Len(answers) >= 1 =>
        /\ IsProtocolFailure(doRet.err) <=>
              (LastAnswer.kind = "response" /\ LastAnswer.status \notin 200..299)
        /\ IsProtocolFailure(doRet.err) =>
              (doRet.err.code = LastAnswer.status /\ doRet.data = NilData)
        /\ (LastAnswer.kind = "response" /\ LastAnswer.status \in {200, 299}) =>
              doRet.err.chain # <<"status code">>

C6_Witness ==
    /\ Len(answers) = 2
    /\ answers[1].status = 299
    /\ answers[2].status = 300
    /\ doRet.err = [chain |-> <<"status code">>, code |-> 300]
    /\ doRet.data = NilData

\* C7: a call of a not-implemented endpoint returns ErrNotImplemented in one
\* step, with no limiter admission, no do and no request, whatever the
\* client has done before.
C7_StubsReturnSentinel ==
    [][ (pc = "idle" /\ call' \in Stubs) =>
            /\ pc' = "done"
            /\ ret'.err = ErrNotImplemented
            /\ ret'.results = <<>>
            /\ admissions' = admissions
            /\ dispatches' = dispatches
            /\ doCalls' = doCalls
            /\ fetches' = <<>>
            /\ sent' = <<>> ]_vars

C7_Witness ==
    /\ call \in Stubs
    /\ pc = "done"
    /\ ret.err = ErrNotImplemented
    /\ dispatches >= 2

-----------------------------------------------------------------------------
(* SpecNew: the constructor *)

ApiKeys == {"key"}

\* The option lists of length at most n.
OptLists(n) == UNION { [1..k -> Options] : k \in 0..n }

IdleEngine ==
    /\ client = ZeroClient
    /\ admissions = 0
    /\ dispatches = 0
    /\ doCalls = 0
    /\ pc = "idle"
    /\ call = ""
    /\ CallLocalsInit

InitNew ==
    /\ newIn \in [apiKey : ApiKeys, opts : OptLists(MaxOpts)]
    /\ newOut = [called |-> FALSE, c |-> ZeroClient, err |-> Nil, ran |-> 0,
                 o |-> ZeroOptions]
    /\ IdleEngine
    /\ IdleUrl

\* New(apiKey, opts...) is called and returns.
CallNew ==
    /\ ~newOut.called
    /\ LET n == New(newIn.apiKey, newIn.opts) IN
       newOut' = [called |-> TRUE, c |-> n.c, err |-> n.err, ran |-> n.ran, o |-> n.o]
    /\ UNCHANGED <<newIn, engineVars, urlVars, concVars>>

NextNew == CallNew

SpecNew == InitNew /\ [][NextNew]_vars

\* The option is one that returns an error: a WithHost of a host that does
\* not parse.
OptionFails(opt) == opt.kind = "WithHost" /\ opt.arg \in InvalidHosts

FailingAt(opts) == { i \in 1..Len(opts) : OptionFails(opts[i]) }

Min(S) == CHOOSE x \in S : \A y \in S : x <= y
Max(S) == CHOOSE x \in S : \A y \in S : x >= y

\* The indices among the first n options that are of the kind.
SettersOf(opts, n, kind) == { i \in 1..n : opts[i].kind = kind }

\* The value the last option of the kind among the first n gave, or unset
\* when there is none.
LastSet(opts, n, kind, unset) ==
    IF SettersOf(opts, n, kind) = {}
    THEN unset
    ELSE opts[Max(SettersOf(opts, n, kind))].arg

\* C8: at the first failing option New stops: that option is the last one
\* run, the options before it were applied in order, no default is filled
\* in, the option's error comes back wrapped, and the Client returned is the
\* zero Client.
C8_NewAbortsAtFirstFailure ==
    (newOut.called /\ FailingAt(newIn.opts) # {}) =>
        LET f == Min(FailingAt(newIn.opts)) IN
        /\ newOut.ran = f
        /\ newOut.err = [chain |-> <<"bad option", "invalid host", "parse">>, code |-> 0]
        /\ newOut.o.host = LastSet(newIn.opts, f - 1, "WithHost", "")
        /\ newOut.o.rateLimit = LastSet(newIn.opts, f - 1, "WithRateLimit", NilPtr)
        /\ newOut.o.httpClient = LastSet(newIn.opts, f - 1, "WithHttpClient", NilPtr)
        /\ newOut.c.apiKey = ""
        /\ newOut.c.options.isNil

C8_Witness ==
    /\ newOut.called
    /\ Len(newIn.opts) = 3
    /\ newIn.opts[1] = [kind |-> "WithRateLimit", arg |-> "rl1"]
    /\ OptionFails(newIn.opts[2])
    /\ newIn.opts[3].kind = "WithHttpClient"
    /\ newOut.ran = 2
    /\ newOut.o.rateLimit = "rl1"
    /\ newOut.o.httpClient = NilPtr
    /\ newOut.c = ZeroClient

NewSucceeded == newOut.called /\ newOut.err = Nil

\* C9: after a successful New each of host, limiter and transport is what
\* the last option that set it gave, and the default only when no option set
\* it.
C9_LastOptionWinsElseDefault ==
    NewSucceeded =>
        LET n == Len(newIn.opts) IN
        /\ newOut.c.options.host = LastSet(newIn.opts, n, "WithHost", DefaultHost)
        /\ newOut.c.options.rateLimit = LastSet(newIn.opts, n, "WithRateLimit", Unlimited)
        /\ newOut.c.options.httpClient =
               LastSet(newIn.opts, n, "WithHttpClient", DefaultClient)

-----------------------------------------------------------------------------
(* The URL builders.  A string is the sequence of its characters. *)

\* The characters url.QueryEscape leaves as they are, among those used here
\* (letters, digits, '-', '_', '.', '~').
Unreserved == {"a", "b", "d", "e", "h", "i", "k", "o", "r", "s", "t", "u", "x",
               "0", "1", "2", "3", "4", "5", "6", "7", "8", "9",
               "-", "_", ".", "~"}

\* Mutant of escapeChar: the character is embedded as it is.
escapeCharRaw(ch) == <<ch>>

\* url.QueryEscape of one character: ' ' becomes '+', an unreserved
\* character stays, any other becomes %XX.
escapeChar(ch) ==
    CASE ch = " " -> <<"+">>
      [] ch \in Unreserved -> <<ch>>
      [] ch = "&" -> <<"%", "2", "6">>
      [] ch = "=" -> <<"%", "3", "D">>
      [] ch = "?" -> <<"%", "3", "F">>
      [] ch = "/" -> <<"%", "2", "F">>
      [] ch = "%" -> <<"%", "2", "5">>
      [] ch = "+" -> <<"%", "2", "B">>

\* url.QueryEscape(s)
RECURSIVE QueryEscape(_)
QueryEscape(str) ==
    IF str = <<>> THEN <<>> ELSE escapeChar(Head(str)) \o QueryEscape(Tail(str))

Digit(d) == <<"0", "1", "2", "3", "4", "5", "6", "7", "8", "9">>[d + 1]

\* the decimal digits of n >= 0
RECURSIVE itoa(_)
itoa(n) == IF n < 10 THEN <<Digit(n)>> ELSE itoa(n \div 10) \o <<Digit(n % 10)>>

\* fmt.Sprintf("%v", v) for a string or an int
fmtV(v) == IF v.isInt THEN (IF v.n < 0 THEN <<"-">> \o itoa(-v.n) ELSE itoa(v.n))
           ELSE v.s

\* path.Join(p...) for segments without '/' and '.': the non-empty segments
\* joined by '/' (Clean changes nothing more in such a path)
RECURSIVE pathJoin(_)
pathJoin(p) ==
    IF p = <<>> THEN <<>>
    ELSE LET rest == pathJoin(Tail(p)) IN
         IF Head(p) = <<>> THEN rest
         ELSE IF rest = <<>> THEN Head(p)
         ELSE Head(p) \o <<"/">> \o rest

Https == <<"h", "t", "t", "p", "s", ":", "/", "/">>

\* Client.buildUrl (line 97)
buildUrl(c, p) == Https \o c.options.host \o <<"/">> \o pathJoin(p)

\* Mutant of separatorAt: every parameter is introduced by '&'.
separatorAlwaysAmp(i) == <<"&">>

\* lines 103-106: the separator before the parameter at (1-based) index i
separatorAt(i) == IF i = 1 THEN <<"?">> ELSE <<"&">>

\* the engine's loop (lines 102-108) from index i on
RECURSIVE withParams(_, _, _)
withParams(uri, ps, i) ==
    IF i > Len(ps) THEN uri
    ELSE withParams(uri \o separatorAt(i) \o ps[i].key \o <<"=">>
                        \o QueryEscape(fmtV(ps[i].value)), ps, i + 1)

\* the engine's Client.buildUrlWithParameters
buildUrlWithParameters(c, p, ps) == withParams(buildUrl(c, p), ps, 1)

\* the loop of src/twitter154/api.go (lines 102-108) from index i on
RECURSIVE withParams154(_, _, _)
withParams154(url, ps, i) ==
    IF i > Len(ps) THEN url
    ELSE withParams154(url \o separatorAt(i) \o ps[i].key \o <<"=">>
                           \o fmtV(ps[i].value), ps, i + 1)

\* Client.buildUrlWithParameters of src/twitter154/api.go
buildUrlWithParameters154(c, p, ps) == withParams154(buildUrl(c, p), ps, 1)

-----------------------------------------------------------------------------
(* SpecUrl: the builders applied to a path and a parameter list *)

StrValue(str) == [isInt |-> FALSE, s |-> str, n |-> 0]
IntValue(n) == [isInt |-> TRUE, s |-> <<>>, n |-> n]

UrlHosts == { <<"h", ".", "i", "o">> }
Segments == { <<"u", "s", "e", "r">>, <<"t">>, <<>> }
ParamKeys == { <<"i", "d">>, <<"k">> }
ParamValues == { StrValue(<<"a">>), StrValue(<<>>), StrValue(<<"a", "&", "b", "=", "x">>),
                 StrValue(<<"x", " ", "?">>), IntValue(100) }
UrlParams == [key : ParamKeys, value : ParamValues]

SeqsUpTo(S, n) == UNION { [1..k -> S] : k \in 0..n }

InitUrl ==
    /\ urlIn \in [c : { [apiKey |-> "key",
                         options |-> [ZeroOptions EXCEPT !.host = h]] : h \in UrlHosts },
                  path : SeqsUpTo(Segments, MaxPathLen),
                  params : SeqsUpTo(UrlParams, MaxParams)]
    /\ urlOut = [built |-> "", url |-> <<>>]
    /\ IdleEngine
    /\ IdleNew

\* The engine's buildUrlWithParameters is called.
BuildEngine ==
    /\ urlOut.built = ""
    /\ urlOut' = [built |-> "engine",
                  url |-> buildUrlWithParameters(urlIn.c, urlIn.path, urlIn.params)]
    /\ UNCHANGED <<urlIn, engineVars, newVars, concVars>>

\* The buildUrlWithParameters of src/twitter154/api.go is called.
Build154 ==
    /\ urlOut.built = ""
    /\ urlOut' = [built |-> "154",
                  url |-> buildUrlWithParameters154(urlIn.c, urlIn.path, urlIn.params)]
    /\ UNCHANGED <<urlIn, engineVars, newVars, concVars>>

NextUrl == BuildEngine \/ Build154

SpecUrl == InitUrl /\ [][NextUrl]_vars

\* The value of a parameter as the builder that ran writes it.
Rendered(v) == IF urlOut.built = "engine" THEN QueryEscape(fmtV(v)) ELSE fmtV(v)

\* The length of "<sep><key>=<value>" for the i-th parameter.
PieceLen(i) == 2 + Len(urlIn.params[i].key) + Len(Rendered(urlIn.params[i].value))

RECURSIVE PiecesLen(_)
PiecesLen(n) == IF n = 0 THEN 0 ELSE PiecesLen(n - 1) + PieceLen(n)

\* Where the i-th parameter's piece starts in the URL (the index before it).
PieceOffset(i) == Len(buildUrl(urlIn.c, urlIn.path)) + PiecesLen(i - 1)

UrlShape ==
    urlOut.built # "" =>
        LET base == buildUrl(urlIn.c, urlIn.path)
            n == Len(urlIn.params)
            url == urlOut.url
        IN  /\ Len(url) = Len(base) + PiecesLen(n)
            /\ SubSeq(url, 1, Len(base)) = base
            /\ n = 0 => url = base
            /\ \A i \in 1..n :
                  LET off == PieceOffset(i)
                      key == urlIn.params[i].key
                      val == Rendered(urlIn.params[i].value)
                  IN  /\ url[off + 1] = (IF i = 1 THEN "?" ELSE "&")
                      /\ SubSeq(url, off + 2, off + 1 + Len(key)) = key
                      /\ url[off + 2 + Len(key)] = "="
                      /\ SubSeq(url, off + 3 + Len(key), off + PieceLen(i)) = val

\* C10: buildUrlWithParameters returns buildUrl(path) followed by the
\* parameters in the order given, the first after '?' and each later one
\* after '&', the bare path URL when there is none, and leaves the path and
\* the parameter list it was given as they were.
C10_UrlIsBasePlusOrderedParams ==
    /\ []UrlShape
    /\ [][urlIn' = urlIn]_vars

C10_Witness ==
    /\ urlOut.built = "engine"
    /\ Len(urlIn.params) = 2
    /\ urlIn.params[1].key # urlIn.params[2].key
    /\ urlIn.params[1].value = StrValue(<<"a", "&", "b", "=", "x">>)
    /\ urlOut.url = buildUrl(urlIn.c, urlIn.path)
                    \o <<"?">> \o urlIn.params[1].key
                    \o <<"=", "a", "%", "2", "6", "b", "%", "3", "D", "x">>
                    \o <<"&">> \o urlIn.params[2].key \o <<"=">>
                    \o Rendered(urlIn.params[2].value)

-----------------------------------------------------------------------------
(* Reading a built URL back, as the receiving server does *)

\* The pieces of str between the occurrences of the character ch.
RECURSIVE SplitOn(_, _)
SplitOn(str, ch) ==
    IF \A i \in 1..Len(str) : str[i] # ch
    THEN <<str>>
    ELSE LET k == CHOOSE i \in 1..Len(str) :
                     str[i] = ch /\ \A j \in 1..(i - 1) : str[j] # ch
         IN  <<SubSeq(str, 1, k - 1)>> \o SplitOn(SubSeq(str, k + 1, Len(str)), ch)

\* The character a %XY escape stands for.
unescapeHex(x, y) ==
    CASE <<x, y>> = <<"2", "6">> -> "&"
      [] <<x, y>> = <<"3", "D">> -> "="
      [] <<x, y>> = <<"3", "F">> -> "?"
      [] <<x, y>> = <<"2", "F">> -> "/"
      [] <<x, y>> = <<"2", "5">> -> "%"
      [] <<x, y>> = <<"2", "B">> -> "+"
      [] OTHER -> "invalid"

\* The text a query component stands for: '+' is a space, %XY a character.
RECURSIVE QueryUnescape(_)
QueryUnescape(str) ==
    IF str = <<>> THEN <<>>
    ELSE IF Head(str) = "+" THEN <<" ">> \o QueryUnescape(Tail(str))
    ELSE IF Head(str) = "%" /\ Len(str) >= 3
         THEN <<unescapeHex(str[2], str[3])>> \o QueryUnescape(SubSeq(str, 4, Len(str)))
    ELSE <<Head(str)>> \o QueryUnescape(Tail(str))

\* The key=value pairs of the URL's query string, in order (none when the
\* URL has no '?').
QueryPairs(url) ==
    LET parts == SplitOn(url, "?") IN
    IF Len(parts) = 1 THEN <<>>
    ELSE SplitOn(SubSeq(url, Len(parts[1]) + 2, Len(url)), "&")

\* C11: in the engine's URL every value is percent-encoded on its own before
\* it is embedded: the query string has exactly one key=value pair per
\* parameter, in order, and each pair reads back as the parameter's key and
\* the text of its value, also when the value holds '&', '=', '?' or ' '.
C11_OnePairPerParameter ==
    urlOut.built = "engine" =>
        LET pairs == QueryPairs(urlOut.url) IN
        /\ Len(pairs) = Len(urlIn.params)
        /\ \A i \in 1..Len(pairs) :
              LET kv == SplitOn(pairs[i], "=") IN
              /\ Len(kv) = 2
              /\ kv[1] = urlIn.params[i].key
              /\ QueryUnescape(kv[2]) = fmtV(urlIn.params[i].value)

C11_Witness ==
    /\ urlOut.built = "engine"
    /\ Len(urlIn.params) = 2
    /\ urlIn.params[1].value = StrValue(<<"a", "&", "b", "=", "x">>)
    /\ urlIn.params[2].value = StrValue(<<"x", " ", "?">>)
    /\ Len(QueryPairs(urlOut.url)) = 2
    /\ SplitOn(QueryPairs(urlOut.url)[2], "=")[2] = <<"x", "+", "%", "3", "F">>

-----------------------------------------------------------------------------
(* The headers of the requests *)

\* The values rq carries under the header called name.
HeaderValues(rq, name) ==
    { rq.header[i].value : i \in { j \in 1..Len(rq.header) : rq.header[j].name = name } }

\* C14: every request handed to the transport, the continuation requests
\* included, carries the two fixed headers: the key header holds the client's
\* credential and the host header the client's configured host.
C14_EveryRequestCarriesBothHeaders ==
    \A i \in 1..Len(sent) :
        /\ HeaderValues(sent[i], "X-RapidAPI-Key") = {client.apiKey}
        /\ HeaderValues(sent[i], "X-RapidAPI-Host") = {client.options.host}

C14_Witness ==
    /\ Len(sent) >= 2
    /\ sent[2].url.path = contPath(args.path)
    /\ HeaderValues(sent[2], "X-RapidAPI-Key") = {"key"}
    /\ HeaderValues(sent[2], "X-RapidAPI-Host") = {"example.com"}

-----------------------------------------------------------------------------
(* The client's configuration *)

\* The client is one that New returned without an error.
ClientIsFromNew ==
    \E o \in ClientOptLists : New("key", o).err = Nil /\ client = New("key", o).c

\* C15: no engine operation changes the client: after every step of a call
\* its credential and its options (host, limiter, transport) are the ones it
\* had before the step, so they stay the ones New produced.
C15_ConfigurationUnchanged ==
    []ClientIsFromNew /\ [][client' = client]_vars

C15_Witness ==
    /\ pc = "done"
    /\ call = "getResultPaginated"
    /\ Len(sent) >= 2
    /\ client = New("key", << [kind |-> "WithHost", arg |-> "example.com"] >>).c
    /\ client.options.host = "example.com"

-----------------------------------------------------------------------------
(* getResult's single fetch *)

\* C12: getResult fetches exactly once; it returns success exactly when the
\* request was answered with a status in 200..299 and a body that read and
\* decoded, and then returns the decoded value; after a transport, status,
\* read or decode failure (or a request that could not be built) it returns
\* the failure, never a success with the zero value.
C12_SingleFetchSuccessIffDecoded ==
    call = "getResult" =>
        /\ Len(fetches) = 1
        /\ Len(sent) <= 1
        /\ Len(answers) <= Len(sent)
        /\ pc = "done" =>
              /\ ret.err = Nil <=> (Len(answers) = 1 /\ IsPage(answers[1]))
              /\ ret.err = Nil =>
                    ret.results = IF answers[1].body.hasResults
                                  THEN answers[1].body.results ELSE <<>>
              /\ ret.err # Nil => ret.results = <<>>

C12_Witness ==
    /\ call = "getResult"
    /\ pc = "done"
    /\ Len(answers) = 1
    /\ answers[1].kind = "response"
    /\ answers[1].status = 200
    /\ answers[1].readOk
    /\ ~answers[1].body.valid
    /\ ret.err = Wrap("unmarshal response", NewError("json"))

-----------------------------------------------------------------------------
(* A page and its own round trip *)

\* The page a response body describes by itself: a field the body does not
\* hold is empty.
OwnPage(b) ==
    [Results |-> IF b.hasResults THEN b.results ELSE <<>>,
     ContinuationToken |-> IF b.hasToken THEN b.token ELSE ""]

\* C16: the item list and the token used after fetch i are the ones of
\* response body i alone; a body that decodes without the item field (the
\* token field) gives a page with no items (an empty token), and nothing of
\* page i-1 is appended or sent again.
C16_PageFromOwnRoundTrip ==
    Paginating =>
        \A i \in 1..Len(pages) : pages[i] = OwnPage(answers[i].body)

-----------------------------------------------------------------------------
(* SpecLive: one paginated call against a remote that ends the stream *)

\* The answer ends the stream: a failure, or a body whose item list is there
\* and empty.
EndsStream(a) ==
    \/ IsFailure(a)
    \/ a.body.hasResults /\ a.body.results = <<>>

\* The transport comes back with resp.  The remote answers at most
\* MaxRequests times and its last possible answer ends the stream.
RespondWithin(resp) ==
    /\ EndsStream(resp) \/ Len(answers) + 1 < MaxRequests
    /\ Respond(resp)

NextLive ==
    \/ \E a \in CallArgs : CallPaginated(a.path, a.params)
    \/ Admit
    \/ Send
    \/ \E resp \in Answers : RespondWithin(resp)

\* Every request is eventually admitted (the limiter's Take returns),
\* dispatched and answered (httpClient.Do returns).
SpecLive ==
    /\ Init
    /\ [][NextLive]_vars
    /\ WF_vars(Admit)
    /\ WF_vars(Send)
    /\ WF_vars(\E resp \in Answers : RespondWithin(resp))

\* The call has returned only after a request that could not be built, a
\* failure, or a body that carries no item.
StoppedOnSignal ==
    (Paginating /\ pc = "done") =>
        \/ NotBuilt
        \/ IsFailure(LastAnswer)
        \/ OwnPage(LastAnswer.body).Results = <<>>

\* C17: when every request is admitted and answered and the remote
\* eventually answers with an empty item list or a failure, every
\* getResultPaginated call eventually returns (Done or Failed); the engine
\* has no page cap of its own: it returns only after a failure or a body
\* without items.
C17_CallTerminates ==
    /\ Paginating ~> pc = "done"
    /\ []StoppedOnSignal

C17_Witness ==
    /\ Paginating
    /\ pc = "done"
    /\ Len(answers) = MaxRequests
    /\ Len(pages) = MaxRequests
    /\ ret.err = Nil
    /\ Len(ret.results) >= MaxRequests - 1

-----------------------------------------------------------------------------
(* SpecApi: the paginated endpoints of twitter154/api.go, each with its own
   loop; do and get are the ones above *)

\* The paginated endpoints: base path, parameters (default options), the
\* message that wraps a failed get, and whether the items of the first page
\* are appended before the loop.
Endpoints154 ==
    { [name |-> "GetUserTweets", path |-> <<"user", "tweets">>,
       params |-> << [key |-> "user_id", value |-> "7"],
                     [key |-> "limit", value |-> "100"],
                     [key |-> "include_replies", value |-> "false"],
                     [key |-> "include_pinned", value |-> "false"] >>,
       getMsg |-> "get user", appendsFirst |-> FALSE],
      [name |-> "GetUserFollowing", path |-> <<"user", "following">>,
       params |-> << [key |-> "user_id", value |-> "7"],
                     [key |-> "limit", value |-> "100"] >>,
       getMsg |-> "get user", appendsFirst |-> FALSE],
      [name |-> "GetUserFollowers", path |-> <<"user", "followers">>,
       params |-> << [key |-> "user_id", value |-> "7"],
                     [key |-> "limit", value |-> "100"] >>,
       getMsg |-> "get user", appendsFirst |-> FALSE],
      [name |-> "GetTweetReplies", path |-> <<"tweet", "replies">>,
       params |-> << [key |-> "tweet_id", value |-> "42"] >>,
       getMsg |-> "get tweet replies", appendsFirst |-> TRUE],
      [name |-> "GetTweetUserFavorites", path |-> <<"tweet", "favoriters">>,
       params |-> << [key |-> "tweet_id", value |-> "42"] >>,
       getMsg |-> "get tweet favorites", appendsFirst |-> TRUE] }

Endpoint154(name) == CHOOSE e \in Endpoints154 : e.name = name

\* for token != ""
loopCond154(token) == token # ""

\* An endpoint from the return of a c.get (before the loop when at = "first",
\* in the loop when at = "loop") up to its return or its next c.get.  Each
\* response is decoded into a fresh r.
afterGet154(e, at, p, ps, acc, g) ==
    IF g.err # Nil
    THEN [done |-> TRUE, decoded |-> FALSE, ret |-> failWith(acc, e.getMsg, g.err),
          path |-> p, params |-> ps, r |-> ZeroPage, results |-> acc]
    ELSE
    LET u == Unmarshal(g.data, ZeroPage) IN
    IF u.err # Nil
    THEN [done |-> TRUE, decoded |-> FALSE,
          ret |-> failWith(acc, "unmarshal response", u.err),
          path |-> p, params |-> ps, r |-> u.r, results |-> acc]
    ELSE
    LET acc2 == IF at = "first" /\ ~e.appendsFirst
                THEN acc ELSE appendResults(acc, u.r)
        token == u.r.ContinuationToken
        p2 == IF at = "first" THEN contPath(p) ELSE p
        ps2 == IF at = "first" THEN contParams(ps, token) ELSE setToken(ps, token)
    IN  [done |-> ~loopCond154(token), decoded |-> TRUE,
         ret |-> IF loopCond154(token) THEN NoRet ELSE succeedWith(acc2),
         path |-> p2, params |-> ps2, r |-> u.r, results |-> acc2]

\* The endpoint invokes c.get(p, ps) and, unless the request cannot be built,
\* enters do and blocks in Take.
IssueGet154(e, p, ps, acc) ==
    LET g == get(client, p, ps) IN
    /\ fetches' = Append(fetches, [path |-> p, params |-> ps])
    /\ IF g.ok
       THEN /\ req' = addHeaders(client, g.req)
            /\ doCalls' = doCalls + 1
            /\ pc' = "take"
            /\ ret' = NoRet
       ELSE /\ req' = req
            /\ doCalls' = doCalls
            /\ pc' = "done"
            /\ ret' = failWith(acc, e.getMsg, g.err)

\* The endpoint e is called and runs to its first blocking point.
CallEndpoint154(e) ==
    /\ pc = "idle"
    /\ call' = e.name
    /\ pos' = "first"
    /\ args' = [path |-> e.path, params |-> e.params]
    /\ path' = e.path
    /\ params' = e.params
    /\ IssueGet154(e, e.path, e.params, <<>>)
    /\ UNCHANGED <<client, admissions, dispatches, r, results, doRet, sent, answers,
                   pages>>
    /\ UNCHANGED <<newVars, urlVars, concVars>>

\* The transport comes back with resp; do, get and the endpoint run on to
\* the return or to the next blocking Take.
Respond154(resp) ==
    /\ pc = "wait"
    /\ \E e \in Endpoints154 : e.name = call
    /\ answers' = Append(answers, resp)
    /\ doRet' = doResult(resp)
    /\ LET e == Endpoint154(call)
           s == afterGet154(e, pos, path, params, results, doResult(resp))
       IN  /\ path' = s.path
           /\ params' = s.params
           /\ r' = s.r
           /\ results' = s.results
           /\ pages' = IF s.decoded THEN Append(pages, s.r) ELSE pages
           /\ pos' = "loop"
           /\ IF s.done
              THEN /\ ret' = s.ret
                   /\ pc' = "done"
                   /\ UNCHANGED <<req, doCalls, fetches>>
              ELSE IssueGet154(e, s.path, s.params, s.results)
    /\ UNCHANGED <<client, admissions, dispatches, call, args, sent>>
    /\ UNCHANGED <<newVars, urlVars, concVars>>

InitApi ==
    /\ client = New("key", <<>>).c
    /\ admissions = 0
    /\ dispatches = 0
    /\ doCalls = 0
    /\ pc = "idle"
    /\ call = ""
    /\ CallLocalsInit
    /\ IdleNew
    /\ IdleUrl

NextApi ==
    \/ \E e \in Endpoints154 : CallEndpoint154(e)
    \/ Admit
    \/ Send
    \/ \E resp \in Answers : Respond154(resp)

SpecApi == InitApi /\ [][NextApi]_vars

InEndpoint154 == \E e \in Endpoints154 : e.name = call

\* The item lists of the pages 1..n, concatenated in order.
RECURSIVE ConcatPages(_, _)
ConcatPages(ps, n) ==
    IF n = 0 THEN <<>> ELSE ConcatPages(ps, n - 1) \o ps[n].Results

\* C18: every paginated endpoint of api.go returns on success the in-order
\* concatenation of the item lists of every page it fetched, the first page
\* (fetched at the base path) included.
C18_AllPagesIncludingFirst ==
    (InEndpoint154 /\ pc = "done" /\ ret.err = Nil) =>
        ret.results = ConcatPages(pages, Len(pages))

\* C19: in api.go an empty item list ends the stream: no request follows a
\* fetched page whose item list is empty, even if it carries a token, and a
\* continuation request follows a page whose item list is not empty, even if
\* its token is empty.
C19_EmptyListEndsStream154 ==
    InEndpoint154 =>
        \A i \in 1..Len(pages) :
            /\ pages[i].Results = <<>> =>
                   /\ Len(fetches) = i
                   /\ pc = "done"
            /\ pages[i].Results # <<>> => Len(fetches) >= i + 1

-----------------------------------------------------------------------------
(* SpecConc: two goroutines call getResultPaginated on the same client *)

\* What the transport answers in SpecConc.
AnswersConc ==
    {TransportError}
    \cup { a \in Answers :
             /\ a.kind = "response" /\ a.status = 200 /\ a.readOk
             /\ a.body.valid /\ a.body.hasResults /\ a.body.hasToken
             /\ <<a.body.results, a.body.token>> \in
                   { <<<<"c">>, "t1">>, <<<<"a", "b">>, "">>, <<<<>>, "t2">> } }

\* c.get(p, ps) by the caller with locals cl: the locals after it
issueGetOf(cl, p, ps, acc) ==
    LET g == get(client, p, ps) IN
    [cl EXCEPT !.fetches = Append(@, [path |-> p, params |-> ps]),
               !.req = IF g.ok THEN addHeaders(client, g.req) ELSE @,
               !.pc = IF g.ok THEN "take" ELSE "done",
               !.ret = IF g.ok THEN NoRet ELSE failWith(acc, "get", g.err)]

\* Caller k calls getResultPaginated(c, p, ps) and runs to its first
\* blocking point.
CallPaginatedBy(k, p, ps) ==
    /\ callers[k].pc = "idle"
    /\ callers' = [callers EXCEPT ![k] =
                     issueGetOf([@ EXCEPT !.pos = "first",
                                          !.args = [path |-> p, params |-> ps],
                                          !.path = p, !.params = ps],
                                p, ps, <<>>)]
    /\ doCalls' = IF get(client, p, ps).ok THEN doCalls + 1 ELSE doCalls
    /\ UNCHANGED <<client, admissions, dispatches, pc, call, pos, path, params, req,
                   r, results, ret, args, doRet, fetches, sent, answers, pages>>
    /\ UNCHANGED <<newVars, urlVars>>

\* Mutant of AdmitBy: the limiter admits nobody while a request is on its way.
AdmitByOneAtATime(k) ==
    /\ callers[k].pc = "take"
    /\ \A j \in Callers : callers[j].pc \notin {"send", "wait"}
    /\ admissions < MaxRequests
    /\ admissions' = Take(admissions)
    /\ callers' = [callers EXCEPT ![k].pc = "send"]
    /\ UNCHANGED <<client, dispatches, doCalls, pc, call, pos, path, params, req,
                   r, results, ret, args, doRet, fetches, sent, answers, pages>>
    /\ UNCHANGED <<newVars, urlVars>>

\* The limiter admits caller k, blocked in do (line 116); Take returns and
\* holds nothing.
AdmitBy(k) ==
    /\ callers[k].pc = "take"
    /\ admissions < MaxRequests
    /\ admissions' = Take(admissions)
    /\ callers' = [callers EXCEPT ![k].pc = "send"]
    /\ UNCHANGED <<client, dispatches, doCalls, pc, call, pos, path, params, req,
                   r, results, ret, args, doRet, fetches, sent, answers, pages>>
    /\ UNCHANGED <<newVars, urlVars>>

\* Caller k's do hands its request to the transport (line 117).
SendBy(k) ==
    /\ callers[k].pc = "send"
    /\ dispatches' = Do(dispatches)
    /\ callers' = [callers EXCEPT ![k].sent = Append(@, callers[k].req),
                                  ![k].pc = "wait"]
    /\ UNCHANGED <<client, admissions, doCalls, pc, call, pos, path, params, req,
                   r, results, ret, args, doRet, fetches, sent, answers, pages>>
    /\ UNCHANGED <<newVars, urlVars>>

\* The transport comes back to caller k with resp; its do, get and
\* getResultPaginated run on to the return or to the next blocking Take.
RespondTo(k, resp) ==
    /\ callers[k].pc = "wait"
    /\ LET cl == callers[k]
           s == afterGet(cl.pos, cl.path, cl.params, cl.r, cl.results, doResult(resp))
           cl2 == [cl EXCEPT !.answers = Append(@, resp),
                             !.path = s.path, !.params = s.params, !.r = s.r,
                             !.results = s.results,
                             !.pages = IF s.decoded THEN Append(@, s.r) ELSE @,
                             !.pos = "loop"]
       IN  /\ callers' = [callers EXCEPT ![k] =
                            IF s.done
                            THEN [cl2 EXCEPT !.ret = s.ret, !.pc = "done"]
                            ELSE issueGetOf(cl2, s.path, s.params, s.results)]
           /\ doCalls' = IF ~s.done /\ get(client, s.path, s.params).ok
                         THEN doCalls + 1 ELSE doCalls
    /\ UNCHANGED <<client, admissions, dispatches, pc, call, pos, path, params, req,
                   r, results, ret, args, doRet, fetches, sent, answers, pages>>
    /\ UNCHANGED <<newVars, urlVars>>

NextConc ==
    \/ \E k \in Callers, a \in CallArgs : CallPaginatedBy(k, a.path, a.params)
    \/ \E k \in Callers : AdmitBy(k)
    \/ \E k \in Callers : SendBy(k)
    \/ \E k \in Callers, resp \in AnswersConc : RespondTo(k, resp)

SpecConc == Init /\ [][NextConc]_vars

\* getResultPaginated running alone on (p, ps) against the answers as: where
\* it stands after the answers 1..n.
RECURSIVE runAlone(_, _, _, _)
runAlone(p, ps, as, n) ==
    IF n = 0
    THEN IF get(client, p, ps).ok
         THEN [done |-> FALSE, ret |-> NoRet, path |-> p, params |-> ps,
               r |-> ZeroPage, results |-> <<>>, at |-> "first"]
         ELSE [done |-> TRUE, ret |-> failWith(<<>>, "get", get(client, p, ps).err),
               path |-> p, params |-> ps, r |-> ZeroPage, results |-> <<>>,
               at |-> "first"]
    ELSE LET b == runAlone(p, ps, as, n - 1) IN
         IF b.done THEN b
         ELSE LET s == afterGet(b.at, b.path, b.params, b.r, b.results,
                                doResult(as[n]))
              IN  [done |-> s.done, ret |-> s.ret, path |-> s.path,
                   params |-> s.params, r |-> s.r, results |-> s.results,
                   at |-> "loop"]

\* Caller k stands where its call would stand alone against its own answers.
AsAlone(k) ==
    LET cl == callers[k]
        a == runAlone(cl.args.path, cl.args.params, cl.answers, Len(cl.answers))
    IN  cl.pc # "idle" =>
            /\ (cl.pc = "done") = a.done
            /\ cl.ret = a.ret
            /\ cl.results = a.results
            /\ cl.path = a.path
            /\ cl.params = a.params
            /\ cl.r = a.r
            /\ \A i \in 1..Len(cl.sent) :
                  /\ cl.sent[i].url.path = cl.fetches[i].path
                  /\ cl.sent[i].url.params = cl.fetches[i].params

\* While another call's request is on its way, caller k can be admitted (if
\* the limiter of the model has budget left) and can dispatch.
NotHeldUp(k) ==
    (\E j \in Callers \ {k} : callers[j].pc \in {"send", "wait"}) =>
        /\ (callers[k].pc = "take" /\ admissions < MaxRequests) => ENABLED AdmitBy(k)
        /\ callers[k].pc = "send" => ENABLED SendBy(k)

\* C13: under every interleaving of two paginated calls on one client each
\* call stands, and returns, exactly as it would alone against its own
\* answers (the limiter's count is all they share), and a call whose request
\* is in flight does not keep the other from being admitted and dispatched.
C13_CallsIndependent ==
    /\ \A k \in Callers : AsAlone(k)
    /\ \A k \in Callers : NotHeldUp(k)
    /\ admissions <= dispatches + Cardinality({k \in Callers : callers[k].pc = "send"})

C13_Witness ==
    /\ callers["c1"].pc = "wait"
    /\ callers["c2"].pc = "wait"
    /\ callers["c1"].args # callers["c2"].args
    /\ Len(callers["c1"].sent) = 1
    /\ Len(callers["c2"].sent) = 2
    /\ callers["c2"].results = <<"c">>
    /\ dispatches = 3

=============================================================================
